---- MODULE Spec2Model ----
(***************************************************************************)
(* Model of src/App.py, the Streamlit page of the E-GEO evaluator.         *)
(*                                                                         *)
(* The page is a script that Streamlit runs from top to bottom once per    *)
(* user event (a widget edit or one button click).  Session state          *)
(* (analysis_result, optimized_text) survives from one run to the next;    *)
(* everything else is recomputed by the run.  One action of the model is   *)
(* one whole run of the script for one event.                              *)
(*                                                                         *)
(* Python values are modelled as tagged records [type, value], so that     *)
(* None, dicts, strings, ints and bools are distinct values with Python's  *)
(* truthiness.  The remote completion service is the environment: what     *)
(* client.chat.completions.create does (raise, or return some text) is     *)
(* chosen nondeterministically for every call.                             *)
(***************************************************************************)
EXTENDS Integers, Sequences, FiniteSets, TLC

VARIABLES
    api_key,          \* value of the sidebar text_input (line 156)
    input_text,       \* value of the description text_area (line 170)
    analysis_result,  \* st.session_state.analysis_result
    optimized_text,   \* st.session_state.optimized_text
    run               \* what the last script run did: button, remote reply,
                      \* outbound requests, messages shown, session before it

vars == <<api_key, input_text, analysis_result, optimized_text, run>>

---------------------------------------------------------------------------
(* Bounds *)

\* Scores range over -ScoreSlack .. 100 + ScoreSlack: the remote model is
\* not held to 0..100.
ScoreSlack == 2

---------------------------------------------------------------------------
(* Python values *)

None == [type |-> "NoneType"]
PyInt(n) == [type |-> "int", value |-> n]
PyStr(s) == [type |-> "str", value |-> s]
PyBool(b) == [type |-> "bool", value |-> b]
PyDict(d) == [type |-> "dict", value |-> d]

EmptyDict == [k \in {} |-> None]

\* bool(v), as used by `if v:` and `if not v:`
truthy(v) ==
    CASE v.type = "NoneType" -> FALSE
      [] v.type = "dict" -> DOMAIN v.value # {}
      [] v.type = "str" -> v.value # ""
      [] v.type = "int" -> v.value # 0
      [] v.type = "bool" -> v.value

\* d.get(key, default)
dict_get(d, key, default) ==
    IF key \in DOMAIN d.value THEN d.value[key] ELSE default

\* the text an f-string puts for {v}
py_format(v) ==
    CASE v.type = "NoneType" -> "None"
      [] v.type = "str" -> v.value
      [] v.type = "bool" -> IF v.value THEN "True" ELSE "False"

---------------------------------------------------------------------------
(* The remote completion service *)

\* A message content: a text that is the JSON encoding of an object, or a
\* text that is not JSON at all.
PlainText(t) == [json |-> FALSE, text |-> t, value |-> EmptyDict]
JsonText(o) == [json |-> TRUE, text |-> "", value |-> o]

NoContent == PlainText("")

\* What one call of client.chat.completions.create does.
Raises(e) == [kind |-> "raise", exc |-> e, content |-> NoContent]
Returns(c) == [kind |-> "return", exc |-> "", content |-> c]
NoCall == [kind |-> "none", exc |-> "", content |-> NoContent]

TransportFailures == {"APIConnectionError", "APITimeoutError", "APIStatusError"}

Scores == (0 - ScoreSlack) .. (100 + ScoreSlack)

\* One criterion entry of "analysis", with "present" or "feedback" possibly
\* left out by the remote model.
Entries ==
    { PyDict([present |-> PyBool(TRUE), feedback |-> PyStr("Clear bullets.")]),
      PyDict([present |-> PyBool(FALSE), feedback |-> PyStr("No bullets.")]),
      PyDict([feedback |-> PyStr("No bullets.")]),
      PyDict([present |-> PyBool(TRUE)]) }

Breakdowns == {EmptyDict} \cup {[Scannability |-> e] : e \in Entries}

\* f restricted to the keys in K
Restrict(f, K) == [k \in K |-> f[k]]

\* The JSON objects the remote model may answer with: every score alone,
\* and every way of leaving fields out around two fixed scores.  The call
\* asks for response_format json_object, so a JSON text is an object; its
\* fields, when present, have the types the prompt asks for.
Objects ==
    {[score |-> PyInt(s)] : s \in Scores}
    \cup
    { Restrict([score |-> PyInt(s), summary_critique |-> PyStr("Too generic."),
                analysis |-> PyDict(b)], K) :
        s \in {35, 72}, b \in Breakdowns,
        K \in SUBSET {"score", "summary_critique", "analysis"} }

AnalyzeReplies ==
    {Raises(e) : e \in TransportFailures}
    \cup {Returns(PlainText("not json"))}
    \cup {Returns(JsonText(o)) : o \in Objects}

OptimizeReplies ==
    {Raises(e) : e \in TransportFailures}
    \cup {Returns(PlainText(t)) : t \in {"", "## Rewritten"}}

\* json.loads
json_loads(content) ==
    IF content.json
    THEN [raised |-> FALSE, exc |-> "", value |-> PyDict(content.value)]
    ELSE [raised |-> TRUE, exc |-> "JSONDecodeError", value |-> None]

---------------------------------------------------------------------------
(* Functions of App.py *)

\* Groq(api_key=key) only builds the client: no request is made, and a
\* key that is a string (the empty one included) is accepted.
get_groq_client(key) == [api_key |-> key]

error(e) == [level |-> "error", text |-> e]
warning(t) == [level |-> "warning", text |-> t]

\* A variant that calls the service a second time when the first call fails.
analyze_description_retry(client, text, reply) ==
    IF reply.kind = "raise"
    THEN [ret |-> None, requests |-> 2, messages |-> <<error(reply.exc)>>]
    ELSE LET parsed == json_loads(reply.content) IN
         IF parsed.raised
         THEN [ret |-> None, requests |-> 1, messages |-> <<error(parsed.exc)>>]
         ELSE [ret |-> parsed.value, requests |-> 1, messages |-> <<>>]

\* A variant that falls back to the raw text when it is not JSON.
analyze_description_rawtext(client, text, reply) ==
    IF reply.kind = "raise"
    THEN [ret |-> None, requests |-> 1, messages |-> <<error(reply.exc)>>]
    ELSE LET parsed == json_loads(reply.content) IN
         IF parsed.raised
         THEN [ret |-> PyStr(reply.content.text), requests |-> 1,
               messages |-> <<error(parsed.exc)>>]
         ELSE [ret |-> parsed.value, requests |-> 1, messages |-> <<>>]

\* analyze_description(client, text): one call of the service inside try;
\* any exception of the call or of json.loads is shown and None returned.
analyze_description(client, text, reply) ==
    IF reply.kind = "raise"
    THEN [ret |-> None, requests |-> 1, messages |-> <<error(reply.exc)>>]
    ELSE LET parsed == json_loads(reply.content) IN
         IF parsed.raised
         THEN [ret |-> None, requests |-> 1, messages |-> <<error(parsed.exc)>>]
         ELSE [ret |-> parsed.value, requests |-> 1, messages |-> <<>>]

\* A variant that returns the error text instead of None.
optimize_description_errtext(client, text, reply) ==
    IF reply.kind = "raise"
    THEN [ret |-> PyStr(reply.exc), requests |-> 1,
          messages |-> <<error(reply.exc)>>]
    ELSE [ret |-> PyStr(reply.content.text), requests |-> 1, messages |-> <<>>]

\* optimize_description(client, text): one call; the content is returned as
\* it is, an exception is shown and None returned.
optimize_description(client, text, reply) ==
    IF reply.kind = "raise"
    THEN [ret |-> None, requests |-> 1, messages |-> <<error(reply.exc)>>]
    ELSE [ret |-> PyStr(reply.content.text), requests |-> 1, messages |-> <<>>]

---------------------------------------------------------------------------
(* The results area *)

Green == "#1a7f37"
Amber == "#d97706"
Red == "#dc2626"

\* A variant with a strict comparison at the upper threshold.
score_color_strict(score) ==
    IF score > 80 THEN Green ELSE IF score >= 50 THEN Amber ELSE Red

score_color(score) ==
    IF score >= 80 THEN Green ELSE IF score >= 50 THEN Amber ELSE Red

\* A variant that shows the results block whatever the session holds.
ResultsShown_always == TRUE

\* `if st.session_state.analysis_result:` - the results block, and with it
\* the optimize button, exists only for a truthy result.
ResultsShown == truthy(analysis_result)

\* What the results block displays for the stored result.
score == dict_get(analysis_result, "score", PyInt(0)).value

critique == py_format(dict_get(analysis_result, "summary_critique", None))

breakdown ==
    LET items == dict_get(analysis_result, "analysis", PyDict(EmptyDict)).value IN
    [k \in DOMAIN items |->
        [icon |-> IF truthy(dict_get(items[k], "present", None))
                  THEN "check" ELSE "cross",
         feedback |-> py_format(dict_get(items[k], "feedback", None))]]

\* `if st.session_state.optimized_text:` - the optimized output block
OptimizedShown == truthy(optimized_text)

---------------------------------------------------------------------------
(* Script runs *)

session == [analysis_result |-> analysis_result # None,
            optimized_text |-> optimized_text # None]

Run(button, reply, requests, messages) ==
    [button |-> button, reply |-> reply, requests |-> requests,
     messages |-> messages, prior |-> session]

Init ==
    /\ api_key = ""
    /\ input_text = ""
    /\ analysis_result = None
    /\ optimized_text = None
    /\ run = Run("none", NoCall, 0, <<>>)

ApiKeys == {"", "gsk_key"}
InputTexts == {"", "Best shoes ever, buy now!"}

\* The user edits the key: a run with no button pressed.
EditApiKey ==
    \E k \in ApiKeys \ {api_key} :
        /\ api_key' = k
        /\ run' = Run("none", NoCall, 0, <<>>)
        /\ UNCHANGED <<input_text, analysis_result, optimized_text>>

\* The user edits the description: a run with no button pressed.
EditInputText ==
    \E t \in InputTexts \ {input_text} :
        /\ input_text' = t
        /\ run' = Run("none", NoCall, 0, <<>>)
        /\ UNCHANGED <<api_key, analysis_result, optimized_text>>

\* A variant that leaves optimized_text alone.
AnalyzeButton_noclear(reply) ==
    /\ IF ~truthy(PyStr(api_key))
       THEN /\ run' = Run("analyze", NoCall, 0,
                          <<warning("Please provide an API Key.")>>)
            /\ UNCHANGED <<analysis_result, optimized_text>>
       ELSE IF ~truthy(PyStr(input_text))
       THEN /\ run' = Run("analyze", NoCall, 0,
                          <<warning("Please provide text.")>>)
            /\ UNCHANGED <<analysis_result, optimized_text>>
       ELSE LET client == get_groq_client(api_key)
                out == analyze_description(client, input_text, reply) IN
            /\ analysis_result' = out.ret
            /\ UNCHANGED optimized_text
            /\ run' = Run("analyze", reply, out.requests, out.messages)
    /\ UNCHANGED <<api_key, input_text>>

\* A variant without the check of the description.
AnalyzeButton_nocheck(reply) ==
    /\ IF ~truthy(PyStr(api_key))
       THEN /\ run' = Run("analyze", NoCall, 0,
                          <<warning("Please provide an API Key.")>>)
            /\ UNCHANGED <<analysis_result, optimized_text>>
       ELSE LET client == get_groq_client(api_key)
                out == analyze_description(client, input_text, reply) IN
            /\ analysis_result' = out.ret
            /\ optimized_text' = None
            /\ run' = Run("analyze", reply, out.requests, out.messages)
    /\ UNCHANGED <<api_key, input_text>>

\* A click on "Analyze Content" (lines 172-181).
AnalyzeButton(reply) ==
    /\ IF ~truthy(PyStr(api_key))
       THEN /\ run' = Run("analyze", NoCall, 0,
                          <<warning("Please provide an API Key.")>>)
            /\ UNCHANGED <<analysis_result, optimized_text>>
       ELSE IF ~truthy(PyStr(input_text))
       THEN /\ run' = Run("analyze", NoCall, 0,
                          <<warning("Please provide text.")>>)
            /\ UNCHANGED <<analysis_result, optimized_text>>
       ELSE LET client == get_groq_client(api_key)
                out == analyze_description(client, input_text, reply) IN
            /\ analysis_result' = out.ret
            /\ optimized_text' = None
            /\ run' = Run("analyze", reply, out.requests, out.messages)
    /\ UNCHANGED <<api_key, input_text>>

\* A variant whose handler is not inside the results block.
OptimizeButton_unguarded(reply) ==
    /\ LET client == get_groq_client(api_key)
           out == optimize_description(client, input_text, reply) IN
       /\ optimized_text' = out.ret
       /\ run' = Run("optimize", reply, out.requests, out.messages)
    /\ UNCHANGED <<api_key, input_text, analysis_result>>

\* A click on "Generate Optimized Description" (lines 215-218).  The button
\* is part of the results block, so it can be clicked only while that
\* block is shown.
OptimizeButton(reply) ==
    /\ ResultsShown
    /\ LET client == get_groq_client(api_key)
           out == optimize_description(client, input_text, reply) IN
       /\ optimized_text' = out.ret
       /\ run' = Run("optimize", reply, out.requests, out.messages)
    /\ UNCHANGED <<api_key, input_text, analysis_result>>

Analyze == \E reply \in AnalyzeReplies : AnalyzeButton(reply)
Optimize == \E reply \in OptimizeReplies : OptimizeButton(reply)

Next == EditApiKey \/ EditInputText \/ Analyze \/ Optimize

Spec == Init /\ [][Next]_vars

---------------------------------------------------------------------------
(* Vocabulary of the properties *)

Idle == analysis_result = None /\ optimized_text = None

\* The last run was an analyze click with a key and a description.
AnalyzeSubmitted ==
    run.button = "analyze" /\ api_key # "" /\ input_text # ""

\* The last run was an analyze click with the key or the description empty.
AnalyzeRejected ==
    run.button = "analyze" /\ (api_key = "" \/ input_text = "")

TransportFailed == run.reply.kind = "raise"
NotJsonAnswered == run.reply.kind = "return" /\ ~run.reply.content.json
JsonAnswered == run.reply.kind = "return" /\ run.reply.content.json

Shown(level) == \E i \in DOMAIN run.messages : run.messages[i].level = level

Rank(colour) == CASE colour = Red -> 0 [] colour = Amber -> 1 [] colour = Green -> 2

---------------------------------------------------------------------------
(* Properties *)

\* C1: an analyze click with a key and a description whose remote call fails
\* with a transport failure leaves analysis_result and optimized_text as
\* they were before the click.
C1_TransportFailureKeepsSession ==
    [][(AnalyzeSubmitted' /\ TransportFailed')
         => (analysis_result' = analysis_result
             /\ optimized_text' = optimized_text)]_vars

\* C2: from a state holding an evaluation and an optimization result, a
\* successful analyze click stores the result of this call and unsets
\* optimized_text.
C2_AnalyzeReplacesAndClears ==
    [][(analysis_result # None /\ optimized_text # None
          /\ AnalyzeSubmitted' /\ JsonAnswered')
         => (analysis_result' = PyDict(run'.reply.content.value)
             /\ optimized_text' = None)]_vars

C2_Witness ==
    /\ AnalyzeSubmitted /\ JsonAnswered
    /\ run.prior.analysis_result /\ run.prior.optimized_text
    /\ analysis_result = PyDict(run.reply.content.value)
    /\ optimized_text = None

\* C3: an analyze click with an empty description or an empty key makes no
\* outbound request, shows a warning and changes neither analysis_result
\* nor optimized_text.
C3_RejectedBeforeAnyCall ==
    [][AnalyzeRejected'
         => (run'.requests = 0 /\ run'.reply = NoCall
             /\ Shown("warning")' /\ ~Shown("error")'
             /\ analysis_result' = analysis_result
             /\ optimized_text' = optimized_text)]_vars

C3_Witness ==
    /\ AnalyzeRejected /\ api_key # "" /\ input_text = ""
    /\ run.prior.analysis_result /\ run.prior.optimized_text
    /\ analysis_result # None /\ optimized_text # None
    /\ Shown("warning")

\* C4: when the answer to an analyze click is not JSON, parsing fails, an
\* error is shown and nothing of that call is stored; from Idle the session
\* stays Idle.
C4_NotJsonStoresNothing ==
    [][(AnalyzeSubmitted' /\ NotJsonAnswered')
         => (json_loads(run'.reply.content).raised
             /\ Shown("error")'
             /\ analysis_result' = None
             /\ (Idle => Idle'))]_vars

C4_Witness ==
    /\ AnalyzeSubmitted /\ NotJsonAnswered
    /\ ~run.prior.analysis_result /\ ~run.prior.optimized_text
    /\ Idle /\ Shown("error")

\* C5: an optimize call can be triggered only while a result of a
\* successful analyze is stored: never in Idle, never right after a failed
\* analyze, and every optimize run started from such a result.
C5_OptimizeOnlyAfterEvaluation ==
    /\ (ENABLED Optimize) => (analysis_result.type = "dict" /\ ResultsShown)
    /\ Idle => ~ENABLED Optimize
    /\ (AnalyzeSubmitted /\ ~JsonAnswered) => ~ENABLED Optimize
    /\ run.button = "optimize"
         => (run.prior.analysis_result /\ analysis_result.type = "dict")

C5_Witness ==
    /\ run.button = "optimize" /\ run.requests = 1
    /\ analysis_result.type = "dict"

\* C6: when the remote call of an optimize click raises, an error is shown,
\* optimized_text is unset after the click and analysis_result is as before.
C6_FailedOptimizeUnsets ==
    [][(run'.button = "optimize" /\ TransportFailed')
         => (Shown("error")'
             /\ optimized_text' = None
             /\ analysis_result' = analysis_result)]_vars

C6_Witness ==
    /\ run.button = "optimize" /\ TransportFailed
    /\ run.prior.optimized_text
    /\ optimized_text = None /\ analysis_result # None /\ Shown("error")

\* C7: the colour of the displayed score is Green from 80 up, Amber from 50
\* to 79 and Red below 50, for every integer score (negative and above 100
\* included), and no higher score has a less favourable colour.
C7_ColourBands ==
    ResultsShown =>
        /\ score_color(score) \in {Green, Amber, Red}
        /\ score >= 80 => score_color(score) = Green
        /\ (50 <= score /\ score < 80) => score_color(score) = Amber
        /\ score < 50 => score_color(score) = Red
        /\ score = 79 => score_color(score) = Amber
        /\ score = 80 => score_color(score) = Green
        /\ score = 49 => score_color(score) = Red
        /\ score = 50 => score_color(score) = Amber
        /\ \A t \in Scores :
              score < t => Rank(score_color(score)) <= Rank(score_color(t))

C7_Witness ==
    /\ ResultsShown /\ AnalyzeSubmitted /\ JsonAnswered
    /\ score = 80 /\ score_color(score) = Green
    /\ score_color(score - 1) = Amber

\* C8: a stored object with a score but neither critique nor breakdown is
\* displayed with that score, the empty string as critique and no breakdown
\* row; a missing score is displayed as 0 and a breakdown entry without a
\* status as failed.
C8_PermissiveDecoding ==
    ResultsShown =>
        LET keys == DOMAIN analysis_result.value
            items == dict_get(analysis_result, "analysis", PyDict(EmptyDict)).value
        IN  /\ "score" \in keys => score = analysis_result.value.score.value
            /\ "score" \notin keys => score = 0
            /\ "summary_critique" \notin keys => critique = ""
            /\ "analysis" \notin keys => DOMAIN breakdown = {}
            /\ \A k \in DOMAIN items :
                  "present" \notin DOMAIN items[k].value
                      => breakdown[k].icon = "cross"

C10_OptimizedImpliesEvaluated ==
    /\ optimized_text # None => analysis_result # None
    /\ analysis_result \in {None} \cup {PyDict(o) : o \in Objects}
    /\ optimized_text \in {None} \cup {PyStr(t) : t \in {"", "## Rewritten"}}

C10_Witness ==
    /\ run.button = "optimize" /\ run.prior.optimized_text
    /\ optimized_text # None /\ analysis_result # None

====
